---- MODULE Spec2Model ----
(***************************************************************************)
(* A model of validator.py: the constraint matcher instance_or_union, the  *)
(* binder and aggregator validate, and the two wrappers validatedfunction  *)
(* and validatedclass (with its wrap-time symbol-resolution loop).         *)
(*                                                                         *)
(* Python strings that the code slices (str(type(v))[8:-2] and the like)   *)
(* are sequences of one-character strings, so that the slices are          *)
(* computed as the code computes them.                                     *)
(***************************************************************************)
EXTENDS Integers, Sequences, FiniteSets, TLC

\* Bound on the number of values one call supplies (positional plus keyword).
MaxSupplied == 3

(***************************************************************************)
(* Python strings as character sequences.                                  *)
(***************************************************************************)
Chars(s) ==
  CASE s = "int" -> <<"i", "n", "t">>
    [] s = "bool" -> <<"b", "o", "o", "l">>
    [] s = "str" -> <<"s", "t", "r">>
    [] s = "float" -> <<"f", "l", "o", "a", "t">>
    [] s = "object" -> <<"o", "b", "j", "e", "c", "t">>
    [] s = "NoneType" -> <<"N", "o", "n", "e", "T", "y", "p", "e">>
    [] s = "list" -> <<"l", "i", "s", "t">>
    [] s = "inspect" -> <<"i", "n", "s", "p", "e", "c", "t">>
    [] s = "_empty" -> <<"_", "e", "m", "p", "t", "y">>
    [] s = "decimal" -> <<"d", "e", "c", "i", "m", "a", "l">>
    [] s = "Decimal" -> <<"D", "e", "c", "i", "m", "a", "l">>
    [] s = "function" -> <<"f", "u", "n", "c", "t", "i", "o", "n">>
    [] s = "typing" -> <<"t", "y", "p", "i", "n", "g">>
    [] s = "Union" -> <<"U", "n", "i", "o", "n">>
    [] s = "List" -> <<"L", "i", "s", "t">>
    [] s = "<class '" -> <<"<", "c", "l", "a", "s", "s", " ", "'">>
    [] s = "'>" -> <<"'", ">">>
    [] s = "." -> <<".">>
    [] s = "[" -> <<"[">>
    [] s = "]" -> <<"]">>
    [] s = ", " -> <<",", " ">>

\* s[lo:] when hi = 0 and s[lo:-hi] otherwise, as Python slices a string.
Slice(s, lo, hi) ==
  IF Len(s) - hi < lo + 1 THEN <<>> ELSE SubSeq(s, lo + 1, Len(s) - hi)

\* str.startswith
StartsWith(s, prefix) ==
  Len(s) >= Len(prefix) /\ SubSeq(s, 1, Len(prefix)) = prefix

(***************************************************************************)
(* Types and annotations.  A class is [k |-> "class", mod, name]; a typing *)
(* construct (Union[...], List[...]) is [k |-> "typing", mod, name, args]  *)
(* with args the member classes.                                           *)
(***************************************************************************)
Cls(mod, name) == [k |-> "class", mod |-> mod, name |-> name, args |-> <<>>]

Typing(name, args) == [k |-> "typing", mod |-> "typing", name |-> name, args |-> args]

\* inspect.Parameter.empty, the annotation of an unannotated parameter and the
\* default of a parameter without one: the class inspect._empty.
Empty == Cls("inspect", "_empty")

\* The __mro__ of the runtime types of the values of the model.
Mro(t) ==
  CASE t = "bool" -> <<"bool", "int", "object">>
    [] t = "int" -> <<"int", "object">>
    [] t = "str" -> <<"str", "object">>
    [] t = "float" -> <<"float", "object">>
    [] t = "NoneType" -> <<"NoneType", "object">>
    [] OTHER -> <<t, "object">>

\* A value is [t |-> the name of its runtime type, r |-> its repr].
TypeOf(v) == Cls("builtins", v.t)

\* type(obj) is cls: the check that ignores subclasses.
IsInstanceExact(obj, cls) ==
  cls.mod = "builtins" /\ cls.name = obj.t

\* isinstance(obj, cls) for a class: cls is in type(obj).__mro__.
IsInstance(obj, cls) ==
  cls.mod = "builtins" /\ \E i \in 1..Len(Mro(obj.t)) : Mro(obj.t)[i] = cls.name

\* typing.get_origin: Union for Union[...], list for List[...].
GetOrigin(compared) ==
  IF compared.name = "Union" THEN Cls("typing", "Union") ELSE Cls("builtins", "list")

\* instance_or_union: isinstance, and when isinstance raises TypeError (a
\* typing construct) the members of a Union or the origin of a generic alias.
instance_or_union(obj, compared) ==
  IF compared.k = "class"
    THEN IsInstance(obj, compared)
    ELSE IF GetOrigin(compared) = Cls("typing", "Union")
      THEN \E i \in 1..Len(compared.args) : IsInstance(obj, compared.args[i])
      ELSE IsInstance(obj, GetOrigin(compared))

\* The dotted name of a class: its __qualname__ for a builtin, else module.qualname.
QualName(cls) ==
  IF cls.mod = "builtins" THEN Chars(cls.name)
  ELSE Chars(cls.mod) \o Chars(".") \o Chars(cls.name)

RECURSIVE JoinNames(_)
JoinNames(args) ==
  IF Len(args) = 0 THEN <<>>
  ELSE IF Len(args) = 1 THEN QualName(args[1])
  ELSE QualName(args[1]) \o Chars(", ") \o JoinNames(Tail(args))

\* str(t): "<class 'int'>" for a class, "typing.Union[int, float]" for a
\* typing construct.
StrOf(t) ==
  IF t.k = "class"
    THEN Chars("<class '") \o QualName(t) \o Chars("'>")
    ELSE Chars("typing") \o Chars(".") \o Chars(t.name) \o Chars("[")
           \o JoinNames(t.args) \o Chars("]")

(***************************************************************************)
(* Values, parameters and the callables that are wrapped or validated.     *)
(***************************************************************************)
Val(t, r) == [t |-> t, r |-> r]

\* The values a caller supplies: "x", 5, 10.5 (the docstring's example) and True.
Values == {Val("str", "'x'"), Val("int", "5"), Val("float", "10.5"), Val("bool", "True")}

NoneVal == Val("NoneType", "None")

\* The default of a dataclass field declared with a default_factory.
Factory == Val("_HAS_DEFAULT_FACTORY_CLASS", "<factory>")

\* The default of a parameter that has none (inspect.Parameter.empty).
NoDefault == Val("type", "inspect._empty")

\* The instance a construction routine receives as self.
SelfObj == Val("Instance", "self")

Param(name, ann, default) == [name |-> name, ann |-> ann, default |-> default]

IntT == Cls("builtins", "int")

StrT == Cls("builtins", "str")

SelfParam == Param("self", Empty, NoDefault)

\* Plain functions: def f(x: int, y: str = 'a', z=3): return x
\*                  def g(b: object, c: List[int] = None): return None
\* Classes (by their __init__): Ex is the docstring's example; E2 names types
\* that the wrapper's namespace does not hold; E1 names one more that nothing
\* resolves (types.FunctionType prints as "function"); E3 has a
\* default_factory field; E0 has no fields.
Functions == {"f", "g"}

Classes == {"Ex", "E2", "E1", "E3", "E0"}

Params(c) ==
  CASE c = "f" -> <<Param("x", IntT, NoDefault), Param("y", StrT, Val("str", "'a'")),
                    Param("z", Empty, Val("int", "3"))>>
    [] c = "g" -> <<Param("b", Cls("builtins", "object"), NoDefault),
                    Param("c", Typing("List", <<IntT>>), NoneVal)>>
    [] c = "Ex" -> <<SelfParam, Param("name", StrT, NoDefault),
                     Param("id", IntT, Val("int", "1000")),
                     Param("weight", Typing("Union", <<IntT, Cls("builtins", "float")>>),
                           Val("int", "100"))>>
    [] c = "E2" -> <<SelfParam, Param("g", Cls("decimal", "Decimal"), NoDefault),
                     Param("h", Typing("List", <<IntT>>), NoneVal)>>
    [] c = "E1" -> <<SelfParam, Param("g", Cls("decimal", "Decimal"), NoDefault),
                     Param("h", Cls("builtins", "function"), NoneVal)>>
    [] c = "E3" -> <<SelfParam, Param("items", Typing("List", <<IntT>>), Factory)>>
    [] c = "E0" -> <<SelfParam>>

\* func.__name__
FuncName(c) == IF c \in Classes THEN "__init__" ELSE c

\* The parameters a caller supplies: all but self for a construction routine.
CallParams(c) == IF c \in Classes THEN Tail(Params(c)) ELSE Params(c)

ParamNames(params) == {params[i].name : i \in 1..Len(params)}

ParamOf(params, name) == params[CHOOSE i \in 1..Len(params) : params[i].name = name]

PosOf(params, name) == CHOOSE i \in 1..Len(params) : params[i].name = name

(***************************************************************************)
(* Keyword arguments and the bound arguments are dicts: sequences of       *)
(* [n |-> name, v |-> value] in insertion order, the order of iteration.   *)
(***************************************************************************)
Keys(d) == {d[i].n : i \in 1..Len(d)}

Get(d, n) == d[CHOOSE i \in 1..Len(d) : d[i].n = n].v

\* d[n] = v: an existing key keeps its place, a new one goes last.
DictSet(d, n, v) ==
  IF n \in Keys(d)
    THEN [i \in 1..Len(d) |-> IF d[i].n = n THEN [n |-> n, v |-> v] ELSE d[i]]
    ELSE Append(d, [n |-> n, v |-> v])

\* The interpreter's binding of a call callee(*args, **kwargs) to the
\* parameters params: ok is FALSE where Python raises TypeError (too many
\* positional values, an unexpected keyword, a value given twice, a required
\* parameter missing); vals are the values in parameter order, defaults
\* filled in.
PyBind(params, args, kwargs) ==
  LET ok == /\ Len(args) <= Len(params)
            /\ \A n \in Keys(kwargs) :
                 n \in ParamNames(params) /\ PosOf(params, n) > Len(args)
            /\ \A i \in 1..Len(params) :
                 (i > Len(args) /\ params[i].name \notin Keys(kwargs))
                   => params[i].default # NoDefault
  IN [ok |-> ok,
      vals |-> IF ok
                 THEN [i \in 1..Len(params) |->
                         IF i <= Len(args) THEN args[i]
                         ELSE IF params[i].name \in Keys(kwargs)
                           THEN Get(kwargs, params[i].name)
                           ELSE params[i].default]
                 ELSE <<>>]

(***************************************************************************)
(* validate                                                                *)
(***************************************************************************)
\* Lines 127-130: the positional values go into arguments under the names of
\* paramlist.  index is 0-based as in the code; for a callable named
\* __init__ it is incremented before BOTH subscripts.  A subscript out of
\* range raises IndexError out of validate.
RECURSIVE BindPositional(_, _, _, _, _)
BindPositional(name, paramlist, args, index, arguments) ==
  IF index >= Len(args) THEN [exc |-> "none", arguments |-> arguments]
  ELSE LET idx == IF name = "__init__" THEN index + 1 ELSE index
       IN IF idx >= Len(args) \/ idx >= Len(paramlist)
            THEN [exc |-> "IndexError", arguments |-> arguments]
            ELSE BindPositional(name, paramlist, args, index + 1,
                                DictSet(arguments, paramlist[idx + 1].name, args[idx + 1]))

\* Lines 140-143: the expected type as the message shows it.
GoodType(required_type) ==
  IF StartsWith(StrOf(required_type), Chars("typing"))
    THEN Slice(StrOf(required_type), 7, 0)
    ELSE Slice(StrOf(required_type), 8, 2)

\* Line 139: the actual type as the message shows it.
BadType(value) == Slice(StrOf(TypeOf(value)), 8, 2)

NoViolations == [exc |-> "none", bad_args |-> <<>>, bad_types |-> <<>>, good_types |-> <<>>]

\* The loop of lines 134-143 cut short at the first failing argument.
RECURSIVE CheckUntilFirst(_, _, _, _)
CheckUntilFirst(params, arguments, i, acc) ==
  IF i > Len(arguments) \/ Len(acc.bad_args) > 0 THEN acc
  ELSE IF arguments[i].n \notin ParamNames(params) THEN [acc EXCEPT !.exc = "KeyError"]
  ELSE LET value == arguments[i].v
           required_type == ParamOf(params, arguments[i].n).ann
       IN IF ~instance_or_union(value, required_type)
            THEN CheckUntilFirst(params, arguments, i + 1,
                   [acc EXCEPT !.bad_args = Append(@, arguments[i].n),
                               !.bad_types = Append(@, BadType(value)),
                               !.good_types = Append(@, GoodType(required_type))])
            ELSE CheckUntilFirst(params, arguments, i + 1, acc)

\* Lines 134-143: every entry of arguments, in iteration order, is checked
\* against the annotation of the parameter of its name; params[argument]
\* raises KeyError for a name that is no parameter.
RECURSIVE CheckArguments(_, _, _, _)
CheckArguments(params, arguments, i, acc) ==
  IF i > Len(arguments) THEN acc
  ELSE IF arguments[i].n \notin ParamNames(params) THEN [acc EXCEPT !.exc = "KeyError"]
  ELSE LET value == arguments[i].v
           required_type == ParamOf(params, arguments[i].n).ann
       IN IF ~instance_or_union(value, required_type)
            THEN CheckArguments(params, arguments, i + 1,
                   [acc EXCEPT !.bad_args = Append(@, arguments[i].n),
                               !.bad_types = Append(@, BadType(value)),
                               !.good_types = Append(@, GoodType(required_type))])
            ELSE CheckArguments(params, arguments, i + 1, acc)

NoMessage == [plural |-> "", names |-> <<>>, actual |-> <<>>, expected |-> <<>>]

\* Lines 146-152.  The message is kept as its parts: the plural suffix and
\* the three lists that str(...)[1:-1] writes out in order.
Message(bad_args, bad_types, good_types) ==
  [plural |-> IF Len(bad_args) > 1 THEN "s" ELSE "",
   names |-> bad_args, actual |-> bad_types, expected |-> good_types]

\* validate(func, *args, **kwargs) as a whole: how it ends (exc is "none"
\* for a normal return) and its locals at that point.
Validate(c, args, kwargs) ==
  LET params == Params(c)
      bound == BindPositional(FuncName(c), params, args, 0, kwargs)
      checked == CheckArguments(params, bound.arguments, 1, NoViolations)
  IN IF bound.exc # "none"
       THEN [exc |-> bound.exc, arguments |-> bound.arguments, bad_args |-> <<>>,
             bad_types |-> <<>>, good_types |-> <<>>, msg |-> NoMessage]
     ELSE IF checked.exc # "none"
       THEN [exc |-> checked.exc, arguments |-> bound.arguments,
             bad_args |-> checked.bad_args, bad_types |-> checked.bad_types,
             good_types |-> checked.good_types, msg |-> NoMessage]
     ELSE IF Len(checked.bad_args) > 0
       THEN [exc |-> "TypeError", arguments |-> bound.arguments,
             bad_args |-> checked.bad_args, bad_types |-> checked.bad_types,
             good_types |-> checked.good_types,
             msg |-> Message(checked.bad_args, checked.bad_types, checked.good_types)]
     ELSE [exc |-> "none", arguments |-> bound.arguments, bad_args |-> <<>>,
           bad_types |-> <<>>, good_types |-> <<>>, msg |-> NoMessage]

(***************************************************************************)
(* validatedclass: the source of the trampoline, written from              *)
(* str(inspect.signature(old_init)), and its execution in the namespace    *)
(* temp.                                                                   *)
(***************************************************************************)
NoExpr == [root |-> "", attr |-> "", sub |-> <<>>]

\* inspect.formatannotation: a builtin class prints as its name, another
\* class as module.name, a typing construct without its "typing." prefix.
FormatAnnotation(ann) ==
  IF ann = Empty THEN NoExpr
  ELSE IF ann.k = "class"
    THEN IF ann.mod = "builtins"
           THEN [root |-> ann.name, attr |-> "", sub |-> <<>>]
           ELSE [root |-> ann.mod, attr |-> ann.name, sub |-> <<>>]
    ELSE [root |-> ann.name, attr |-> "",
          sub |-> [i \in 1..Len(ann.args) |-> ann.args[i].name]]

\* The parameter names alone, as line 77 joins them into text.
NamesOnly(params) ==
  [i \in 1..Len(params) |-> [name |-> params[i].name, ann |-> NoExpr, default |-> ""]]

\* str(inspect.signature(old_init)): per parameter its name, its annotation
\* as formatannotation prints it and the repr of its default ("" for none).
RenderSignature(params) ==
  [i \in 1..Len(params) |->
     [name |-> params[i].name,
      ann |-> FormatAnnotation(params[i].ann),
      default |-> IF params[i].default = NoDefault THEN "" ELSE params[i].default.r]]

\* Names of the builtins module that the annotations of the model use.
Builtins == {"int", "str", "float", "bool", "object", "list"}

\* What the three import statements of lines 91-96 can bind.
Modules == {"decimal", "inspect"}

TypingNames == {"Union", "Optional", "List", "Callable"}

TypesNames == {"NoneType", "FunctionType"}

Bind(n, obj) == [n |-> n, obj |-> obj]

\* Line 78: globals() of the module and locals() of validatedclass.
InitialTemp ==
  {Bind("inspect", "module"), Bind("copy", "function"), Bind("update_wrapper", "function"),
   Bind("wraps", "function"), Bind("Callable", "typing"), Bind("get_args", "function"),
   Bind("get_origin", "function"), Bind("Union", "typing"), Bind("IMPORTS", "list"),
   Bind("COMPLEX_IMPORTS", "list"), Bind("instance_or_union", "function"),
   Bind("validatedclass", "function"), Bind("validatedfunction", "function"),
   Bind("validate", "function"), Bind("cls", "class"), Bind("old_init", "function"),
   Bind("validation", "function"), Bind("params", "list"), Bind("text", "str")}

\* Lines 7 and 10.
IMPORTS == <<>>

COMPLEX_IMPORTS == <<>>

Bound(temp) == {b.n : b \in temp}

\* namespace[n] = obj
Rebind(temp, n, obj) == {b \in temp : b.n # n} \cup {Bind(n, obj)}

\* Lines 80-81: import each name of IMPORTS into temp.
RECURSIVE RunImports(_, _)
RunImports(imports, temp) ==
  IF Len(imports) = 0 THEN temp
  ELSE RunImports(Tail(imports), Rebind(temp, Head(imports), "module"))

\* A name lookup in temp, then in builtins: "" for a NameError.
Lookup(temp, n) ==
  IF n \in Bound(temp) THEN (CHOOSE b \in temp : b.n = n).obj
  ELSE IF n \in Builtins THEN "class"
  ELSE ""

\* Whether an annotation expression evaluates in temp once its names are
\* bound: root.attr needs a module, root[...] a typing construct, a bare
\* name a class.
Evaluates(e, temp) ==
  \/ e = NoExpr
  \/ e.attr # "" /\ Lookup(temp, e.root) = "module"
  \/ e.attr = "" /\ Len(e.sub) > 0 /\ Lookup(temp, e.root) = "typing"
  \/ e.attr = "" /\ Len(e.sub) = 0 /\ Lookup(temp, e.root) = "class"

\* The value of an annotation expression in temp.
EvalAnnotation(e, temp) ==
  IF e = NoExpr THEN Empty
  ELSE IF e.attr # "" THEN Cls(e.root, e.attr)
  ELSE IF Len(e.sub) > 0
    THEN Typing(e.root, [i \in 1..Len(e.sub) |-> Cls("builtins", e.sub[i])])
  ELSE Cls("builtins", e.root)

\* The type of the value a literal denotes.
LiteralType(r) ==
  CASE r = "None" -> "NoneType"
    [] r = "True" -> "bool"
    [] r = "'a'" -> "str"
    [] r = "'x'" -> "str"
    [] r = "10.5" -> "float"
    [] OTHER -> "int"

\* The value of the repr of a default: the source of the trampoline holds
\* the repr, and def evaluates it.
EvalDefault(r) == IF r = "" THEN NoDefault ELSE Val(LiteralType(r), r)

\* A repr that is no Python expression, such as <factory>.
Unparsable(r) == r = "<factory>"

\* The names a rendered signature refers to, in the order def evaluates them.
RECURSIVE NamesUsed(_)
NamesUsed(sig) ==
  IF Len(sig) = 0 THEN <<>>
  ELSE (IF Head(sig).ann = NoExpr THEN <<>> ELSE <<Head(sig).ann.root>> \o Head(sig).ann.sub)
         \o NamesUsed(Tail(sig))

\* Lines 85-87: exec of "from typing import Union, Optional" and of the def
\* of the trampoline in temp.  SyntaxError if the source does not compile,
\* NameError with the first name that neither temp nor builtins holds,
\* another error if a name is bound to the wrong kind of object, else the
\* function func with the parameters the def declares.
ExecDef(sig, temp) ==
  LET names == NamesUsed(sig)
      missing == {i \in 1..Len(names) : Lookup(temp, names[i]) = ""}
  IN IF \E i \in 1..Len(sig) : Unparsable(sig[i].default)
       THEN [outcome |-> "SyntaxError", name |-> "", params |-> <<>>]
     ELSE IF missing # {}
       THEN [outcome |-> "NameError",
             name |-> names[CHOOSE i \in missing : \A j \in missing : i <= j],
             params |-> <<>>]
     ELSE IF \E i \in 1..Len(sig) : ~Evaluates(sig[i].ann, temp)
       THEN [outcome |-> "Error", name |-> "", params |-> <<>>]
     ELSE [outcome |-> "ok", name |-> "",
           params |-> [i \in 1..Len(sig) |->
                         Param(sig[i].name, EvalAnnotation(sig[i].ann, temp),
                               EvalDefault(sig[i].default))]]

\* A failed import that leaves temp as it was instead of raising.
ImportQuiet(temp, n) ==
  IF n \in Modules THEN [ok |-> TRUE, temp |-> Rebind(temp, n, "module")]
  ELSE IF n \in TypingNames THEN [ok |-> TRUE, temp |-> Rebind(temp, n, "typing")]
  ELSE IF n \in TypesNames THEN [ok |-> TRUE, temp |-> Rebind(temp, n, "class")]
  ELSE [ok |-> TRUE, temp |-> temp]

\* Lines 90-96: import n, else from typing import n, else from types import
\* n; the last one's ImportError is not caught.
ImportMissing(temp, n) ==
  IF n \in Modules THEN [ok |-> TRUE, temp |-> Rebind(temp, n, "module")]
  ELSE IF n \in TypingNames THEN [ok |-> TRUE, temp |-> Rebind(temp, n, "typing")]
  ELSE IF n \in TypesNames THEN [ok |-> TRUE, temp |-> Rebind(temp, n, "class")]
  ELSE [ok |-> FALSE, temp |-> temp]

(***************************************************************************)
(* The state.                                                              *)
(***************************************************************************)
VARIABLES
  mode,         \* "function": validatedfunction(c); "class": validatedclass(c);
                \* "direct": validate(c, ...), or validate(c.__init__, ...) for a
                \* class, called directly
  c,            \* the callable
  wpc,          \* where the wrapping is: start, loop, defined, installed, failed
  temp,         \* validatedclass: the namespace temp
  func_params,  \* validatedclass: the parameters of temp['func']
  cls_init,     \* cls.__init__: "old_init" or "func"
  wexc,         \* the exception that ended the wrapping, "none" if none
  pc,           \* where the call is: idle, entered, validated, delegated,
                \* returned, raised
  args, kwargs, \* the caller's positional and keyword values
  vargs, vkwargs,    \* what validate (and then the original) receives
  arguments, bad_args, bad_types, good_types, msg,   \* validate's locals
  vexc,         \* how validate ended: pending, none, or the exception
  cexc,         \* the exception the call raised to its caller, "none" if none
  invoked,      \* how many times the body of the original callable ran
  received,     \* the parameter values the original callable ran with
  result,       \* what the original callable returned
  ret           \* what the call returned to its caller

vars == <<mode, c, wpc, temp, func_params, cls_init, wexc, pc, args, kwargs, vargs,
          vkwargs, arguments, bad_args, bad_types, good_types, msg, vexc, cexc,
          invoked, received, result, ret>>

wrapVars == <<wpc, temp, func_params, cls_init, wexc>>

callVars == <<pc, args, kwargs, vargs, vkwargs, arguments, bad_args, bad_types,
              good_types, msg, vexc, cexc, invoked, received, result, ret>>

\* No value yet.
Unset == Val("unset", "")

\* The sequences over S of length at most n.
RECURSIVE SeqsUpTo(_, _)
SeqsUpTo(S, n) ==
  IF n = 0 THEN {<<>>}
  ELSE LET shorter == SeqsUpTo(S, n - 1)
       IN shorter \cup {Append(q, x) : q \in {r \in shorter : Len(r) = n - 1}, x \in S}

\* The keyword dicts of at most n entries over the names.
RECURSIVE KwUpTo(_, _)
KwUpTo(names, n) ==
  IF n = 0 THEN {<<>>}
  ELSE LET shorter == KwUpTo(names, n - 1)
       IN shorter \cup
          UNION {{Append(d, [n |-> nm, v |-> x]) : nm \in names \ Keys(d), x \in Values} :
                   d \in {r \in shorter : Len(r) = n - 1}}

\* The keyword names a caller may write: the declared ones and one that no
\* callable declares.
KwNames(callable) == ParamNames(CallParams(callable)) \cup {"q"}

\* What the body of the original callable returns: f returns x, the others
\* None.
Body(callable, vals) == IF callable = "f" THEN vals[1] ELSE NoneVal

Init ==
  /\ \/ mode = "function" /\ c \in Functions
     \/ mode = "class" /\ c \in Classes
     \/ mode = "direct" /\ c \in {"f", "Ex"}
  /\ wpc = "start"
  /\ temp = {}
  /\ func_params = <<>>
  /\ cls_init = "old_init"
  /\ wexc = "none"
  /\ pc = "idle"
  /\ args = <<>> /\ kwargs = <<>> /\ vargs = <<>> /\ vkwargs = <<>>
  /\ arguments = <<>> /\ bad_args = <<>> /\ bad_types = <<>> /\ good_types = <<>>
  /\ msg = NoMessage
  /\ vexc = "pending"
  /\ cexc = "none"
  /\ invoked = 0
  /\ received = <<>>
  /\ result = Unset
  /\ ret = Unset

(***************************************************************************)
(* Wrapping.                                                               *)
(***************************************************************************)
\* validatedfunction, lines 105-115: the wrapper is returned.
WrapFunction ==
  /\ mode = "function" /\ wpc = "start"
  /\ wpc' = "installed"
  /\ UNCHANGED <<mode, c, temp, func_params, cls_init, wexc>>
  /\ UNCHANGED callVars

\* validatedclass, lines 67-78: old_init, validation, params, text, temp.
WrapClass ==
  /\ mode = "class" /\ wpc = "start"
  /\ temp' = InitialTemp
  /\ wpc' = "loop"
  /\ UNCHANGED <<mode, c, func_params, cls_init, wexc>>
  /\ UNCHANGED callVars

\* One pass of the while loop, lines 79-96.  The exec of COMPLEX_IMPORTS is
\* given no namespace, so it binds nothing in temp.
ResolvePass ==
  /\ wpc = "loop"
  /\ LET imported == RunImports(IMPORTS, temp)
         preamble == Rebind(Rebind(imported, "Union", "typing"), "Optional", "typing")
         r == ExecDef(RenderSignature(Params(c)), preamble)
         fix == ImportMissing(preamble, r.name)
     IN \/ /\ r.outcome = "ok"
           /\ func_params' = r.params
           /\ temp' = Rebind(preamble, "func", "function")
           /\ wpc' = "defined"
           /\ wexc' = "none"
        \/ /\ r.outcome \in {"SyntaxError", "Error"}
           /\ temp' = preamble
           /\ wpc' = "failed"
           /\ wexc' = r.outcome
           /\ UNCHANGED func_params
        \/ /\ r.outcome = "NameError" /\ fix.ok
           /\ temp' = fix.temp
           /\ UNCHANGED <<wpc, wexc, func_params>>
        \/ /\ r.outcome = "NameError" /\ ~fix.ok
           /\ temp' = preamble
           /\ wpc' = "failed"
           /\ wexc' = "ImportError"
           /\ UNCHANGED func_params
  /\ UNCHANGED <<mode, c, cls_init>>
  /\ UNCHANGED callVars

\* Lines 100-102: update_wrapper and setattr(cls, '__init__', new_init).
Install ==
  /\ wpc = "defined"
  /\ cls_init' = "func"
  /\ wpc' = "installed"
  /\ UNCHANGED <<mode, c, temp, func_params, wexc>>
  /\ UNCHANGED callVars

(***************************************************************************)
(* A call.                                                                 *)
(***************************************************************************)
\* The caller's call.  A wrapped function's wrapper(*args, **kwargs) and
\* validate itself take any values; the trampoline func of a wrapped class
\* has declared parameters, which the interpreter binds (TypeError if it
\* cannot) and the body passes on by position: validation(self, p1, ..., pn).
Call ==
  /\ pc = "idle"
  /\ wpc = "installed" \/ (mode = "direct" /\ wpc = "start")
  /\ \E a \in SeqsUpTo(Values, MaxSupplied) :
       \E k \in KwUpTo(KwNames(c), MaxSupplied - Len(a)) :
         /\ args' = a
         /\ kwargs' = k
         /\ IF mode = "class"
              THEN LET b == PyBind(Tail(func_params), a, k)
                   IN IF b.ok
                        THEN /\ vargs' = b.vals /\ vkwargs' = <<>>
                             /\ pc' = "entered" /\ cexc' = "none"
                        ELSE /\ vargs' = <<>> /\ vkwargs' = <<>>
                             /\ pc' = "raised" /\ cexc' = "TypeError"
              ELSE /\ vargs' = a /\ vkwargs' = k
                   /\ pc' = "entered" /\ cexc' = "none"
  /\ UNCHANGED <<mode, c, arguments, bad_args, bad_types, good_types, msg, vexc,
                 invoked, received, result, ret>>
  /\ UNCHANGED wrapVars

\* validate(func, *args, **kwargs), lines 118-152 (called at lines 71 and 112).
RunValidate ==
  /\ pc = "entered"
  /\ LET r == Validate(c, vargs, vkwargs)
     IN /\ arguments' = r.arguments
        /\ bad_args' = r.bad_args
        /\ bad_types' = r.bad_types
        /\ good_types' = r.good_types
        /\ msg' = r.msg
        /\ vexc' = r.exc
        /\ cexc' = r.exc
        /\ IF r.exc # "none" THEN pc' = "raised" /\ ret' = ret
           ELSE IF mode = "direct" THEN pc' = "returned" /\ ret' = NoneVal
           ELSE pc' = "validated" /\ ret' = ret
  /\ UNCHANGED <<mode, c, args, kwargs, vargs, vkwargs, invoked, received, result>>
  /\ UNCHANGED wrapVars

\* The original callable called although validate raised.
DelegateAnyway ==
  /\ pc \in {"validated", "raised"} /\ vexc # "pending" /\ invoked = 0
  /\ LET b == PyBind(CallParams(c), vargs, vkwargs)
     IN /\ b.ok
        /\ invoked' = invoked + 1
        /\ received' = b.vals
        /\ result' = Body(c, b.vals)
        /\ pc' = "delegated"
        /\ cexc' = "none"
  /\ UNCHANGED <<mode, c, args, kwargs, vargs, vkwargs, arguments, bad_args, bad_types,
                 good_types, msg, vexc, ret>>
  /\ UNCHANGED wrapVars

\* Line 113, func(*args, **kwargs), and line 73, old_init(self, *args,
\* **kwargs): reached only when validate returned.  The interpreter binds the
\* values to the original's parameters (TypeError if it cannot) and the body
\* runs.
Delegate ==
  /\ pc = "validated"
  /\ LET b == PyBind(CallParams(c), vargs, vkwargs)
     IN IF b.ok
          THEN /\ invoked' = invoked + 1
               /\ received' = b.vals
               /\ result' = Body(c, b.vals)
               /\ pc' = "delegated"
               /\ cexc' = "none"
          ELSE /\ pc' = "raised"
               /\ cexc' = "TypeError"
               /\ UNCHANGED <<invoked, received, result>>
  /\ UNCHANGED <<mode, c, args, kwargs, vargs, vkwargs, arguments, bad_args, bad_types,
                 good_types, msg, vexc, ret>>
  /\ UNCHANGED wrapVars

\* The end of wrapper (line 113 has no return), of validation (line 73) and
\* of the trampoline (line 87): the call returns None.
Return ==
  /\ pc = "delegated"
  /\ ret' = NoneVal
  /\ pc' = "returned"
  /\ UNCHANGED <<mode, c, args, kwargs, vargs, vkwargs, arguments, bad_args, bad_types,
                 good_types, msg, vexc, cexc, invoked, received, result>>
  /\ UNCHANGED wrapVars

Next ==
  \/ WrapFunction
  \/ WrapClass
  \/ ResolvePass
  \/ Install
  \/ Call
  \/ RunValidate
  \/ Delegate
  \/ Return

Spec == Init /\ [][Next]_vars

\* validatedclass runs to its end once called: each pass of its loop is taken.
FairSpec == Spec /\ WF_vars(WrapClass) /\ WF_vars(ResolvePass) /\ WF_vars(Install)

(***************************************************************************)
(* Properties.                                                             *)
(***************************************************************************)
\* validate has run to its end, by a return or by an exception.
ValidateEnded == vexc # "pending"

\* validate got past its binding loop: its check loop ran.
BindingDone == vexc \in {"none", "TypeError", "KeyError"}

\* C1: a call of a function wrapped by validatedfunction whose bound
\* arguments all satisfy their constraints returns exactly the value the
\* function returns for the same arguments.
C1_WrapperReturnsResult ==
  (mode = "function" /\ pc = "returned") => ret = result

\* C2: in every call where validate raises, the original callable is never
\* invoked and the failure reaches the caller; the original runs only after
\* validate returned.
C2_NoInvocationAfterFailure ==
  /\ (vexc \notin {"pending", "none"}) => (invoked = 0 /\ pc = "raised" /\ cexc = vexc)
  /\ invoked > 0 => vexc = "none"

C2_Witness ==
  mode = "function" /\ pc = "raised" /\ vexc = "TypeError" /\ invoked = 0

\* The entries of arguments that name a declared parameter and whose value
\* fails that parameter's constraint, in iteration order.
FailsConstraint(a) ==
  /\ a.n \in ParamNames(Params(c))
  /\ ~instance_or_union(a.v, ParamOf(Params(c), a.n).ann)

Failing == SelectSeq(arguments, FailsConstraint)

\* A type as a reader names it: int, inspect._empty, Union[int, float].
DisplayName(t) ==
  IF t.k = "class" THEN QualName(t)
  ELSE Chars(t.name) \o Chars("[") \o JoinNames(t.args) \o Chars("]")

\* With k = Len(Failing): no failure for k = 0; for k >= 1 one TypeError whose
\* message lists the k names, the k actual and the k expected type names in
\* the same order, plural exactly when k > 1.
AggregatedFailure ==
  LET k == Len(Failing)
  IN /\ k = 0 => (vexc = "none" /\ msg = NoMessage)
     /\ k >= 1 =>
          /\ vexc = "TypeError" /\ cexc = "TypeError"
          /\ Len(msg.names) = k /\ Len(msg.actual) = k /\ Len(msg.expected) = k
          /\ \A j \in 1..k :
               /\ msg.names[j] = Failing[j].n
               /\ msg.actual[j] = Chars(Failing[j].v.t)
               /\ msg.expected[j] = DisplayName(ParamOf(Params(c), Failing[j].n).ann)
          /\ (msg.plural = "s") <=> (k > 1)
          /\ msg.plural \in {"", "s"}

SuppliedSatisfy ==
  /\ \A i \in 1..Len(args) : instance_or_union(args[i], CallParams(c)[i].ann)
  /\ \A i \in 1..Len(kwargs) :
       instance_or_union(kwargs[i].v, ParamOf(CallParams(c), kwargs[i].n).ann)

\* C4: a construction call of a class wrapped by validatedclass that fits
\* the signature and whose supplied values all satisfy their constraints
\* passes validation, and the original __init__ runs exactly once, with the
\* same arguments.
C4_ValidConstructionSucceeds ==
  (/\ mode = "class" /\ pc \in {"returned", "raised"}
   /\ PyBind(CallParams(c), args, kwargs).ok
   /\ SuppliedSatisfy)
    => (/\ pc = "returned" /\ vexc = "none" /\ invoked = 1
        /\ received = PyBind(CallParams(c), args, kwargs).vals)

\* The parameters with a default that the caller wrote no value for.
OmittedDefaulted ==
  {CallParams(c)[i].name : i \in {j \in 1..Len(CallParams(c)) :
      /\ CallParams(c)[j].default # NoDefault
      /\ j > Len(args)
      /\ CallParams(c)[j].name \notin Keys(kwargs)}}

\* C5: a parameter with a default that the call omits is not added to the
\* bound arguments and no violation is reported for it, for the function
\* wrapper and the construction-routine wrapper alike.
C5_OmittedDefaultNotBound ==
  ValidateEnded =>
    \A n \in OmittedDefaulted :
      n \notin Keys(arguments) /\ \A i \in 1..Len(bad_args) : bad_args[i] # n

\* C6: validate records no violation for a parameter without an annotation,
\* whatever value is supplied for it.
C6_UnannotatedNeverFlagged ==
  ValidateEnded =>
    \A i \in 1..Len(bad_args) : ParamOf(Params(c), bad_args[i]).ann # Empty

\* The class a builtin class directly derives from ("" for object).
Base(t) ==
  CASE t = "object" -> ""
    [] t = "bool" -> "int"
    [] OTHER -> "object"

\* t is u or a subtype of u.
RECURSIVE IsSubtype(_, _)
IsSubtype(t, u) == t = u \/ (Base(t) # "" /\ IsSubtype(Base(t), u))

\* The bound arguments whose parameter is annotated with a single class.
NominalChecked ==
  {i \in 1..Len(arguments) :
     /\ arguments[i].n \in ParamNames(Params(c))
     /\ ParamOf(Params(c), arguments[i].n).ann.k = "class"}

Accepted(i) == \A j \in 1..Len(bad_args) : bad_args[j] # arguments[i].n

\* The check loop ran over all of arguments.
CheckDone == vexc \in {"none", "TypeError"}

\* C7 as amended: for a single nominal type T, instance_or_union(v, T) is
\* true iff the runtime type of v is T or a subtype of T; a value of a
\* subtype is accepted for its supertype, and so a boolean is accepted for an
\* integer constraint, bool being a subtype of int.
C7_MatchesIffSubtype ==
  CheckDone =>
    \A i \in NominalChecked :
      LET T == ParamOf(Params(c), arguments[i].n).ann
      IN Accepted(i) <=> (T.mod = "builtins" /\ IsSubtype(arguments[i].v.t, T.name))

\* C7 as stated: the same, and a boolean is rejected for an integer constraint.
C7_Original ==
  /\ C7_MatchesIffSubtype
  /\ CheckDone =>
       \A i \in NominalChecked :
         (arguments[i].v.t = "bool" /\ ParamOf(Params(c), arguments[i].n).ann = IntT)
           => ~Accepted(i)

C7_Witness ==
  /\ CheckDone
  /\ \E i \in NominalChecked :
       /\ arguments[i].v.t = "bool"
       /\ ParamOf(Params(c), arguments[i].n).ann = IntT
       /\ Accepted(i)

\* C8: after validatedclass(cls) completes, the installed __init__ declares
\* the parameters of the original __init__: the same names in the same order
\* with the same default values and declared types.
C8_SignaturePreserved ==
  (mode = "class" /\ wpc = "installed") =>
    (/\ cls_init = "func"
     /\ Len(func_params) = Len(Params(c))
     /\ \A i \in 1..Len(Params(c)) :
          /\ func_params[i].name = Params(c)[i].name
          /\ func_params[i].default = Params(c)[i].default
          /\ func_params[i].ann = Params(c)[i].ann)

C8_Witness ==
  mode = "class" /\ wpc = "installed" /\ c = "E2" /\ Len(func_params) = 3

\* C9: for a construction routine given n positional values that exclude
\* self, with n at most the number of checkable parameters, binding completes
\* without error, the i-th value is bound to the parameter at position i+1,
\* and self is never bound.
C9_PositionalOffset ==
  (/\ FuncName(c) = "__init__" /\ ValidateEnded
   /\ Len(vargs) <= Len(Params(c)) - 1)
    => (/\ vexc # "IndexError"
        /\ "self" \notin Keys(arguments)
        /\ \A i \in 1..Len(vargs) :
             /\ Params(c)[i + 1].name \in Keys(arguments)
             /\ Get(arguments, Params(c)[i + 1].name) = vargs[i])

\* The names of the signature that neither temp nor builtins holds.
Unresolved(t) ==
  LET names == NamesUsed(RenderSignature(Params(c)))
  IN {names[i] : i \in {j \in 1..Len(names) : Lookup(t, names[j]) = ""}}

\* C10: the symbol-resolution loop of validatedclass terminates: every pass
\* defines the trampoline and leaves the loop, or raises out of
\* validatedclass, or binds the missing name (the set of unresolved names
\* shrinks); and when wrapping ends with an exception the class's __init__
\* is still the original one.
C10_ResolutionTerminates ==
  /\ [][wpc = "loop" =>
          \/ wpc' \in {"defined", "failed"}
          \/ wpc' = "loop" /\ Unresolved(temp') \subseteq Unresolved(temp)
                           /\ Unresolved(temp') # Unresolved(temp)]_vars
  /\ (wpc = "loop") ~> (wpc \in {"defined", "failed"})
  /\ [](wpc = "failed" => (cls_init = "old_init" /\ wexc # "none"))

C10_Witness ==
  /\ wpc = "failed" /\ wexc = "ImportError" /\ cls_init = "old_init"
  /\ "decimal" \in Bound(temp)

====
